---- MODULE Spec2Model ----
(***************************************************************************)
(* generate_aidev_csvs.py: a linear batch pipeline.  main downloads four   *)
(* parquet tables, produce_task1..4 rename/select columns and write one    *)
(* CSV each (task 4 passes the patch column through clean_diff), and       *)
(* produce_task5 reads the task-1 and task-3 CSVs back, left-joins them    *)
(* and adds the SECURITY keyword flag.                                     *)
(*                                                                         *)
(* Cell values are sequences of integers:                                  *)
(*   a str        the sequence of its code points (all >= 0)               *)
(*   None / NaN   NULL      == <<-1>>                                      *)
(*   an int n     Num(n)    == <<-2, n>>                                   *)
(*   a float n.0  Float(n)  == <<-3, n>>                                   *)
(***************************************************************************)
EXTENDS Integers, Sequences, FiniteSets, TLC

VARIABLES
    pc,          \* position of main: "download", "task1".."task5", "done", "aborted"
    hub,         \* the remote dataset: FILES key -> table (the available ones)
    local_paths, \* main's local_paths: FILES key -> the downloaded table
    df,          \* task 1..4 -> the DataFrame df of produce_task<k> after it ran
    out,         \* task 1..5 -> the DataFrame out that produce_task<k> wrote
    files,       \* OUT_DIR: task 1..5 -> the CSV written
    stdout,      \* the progress lines printed so far
    text,        \* sanitizer run: the argument of clean_diff
    once,        \* sanitizer run: clean_diff(text)
    twice        \* sanitizer run: clean_diff(clean_diff(text))

vars == <<pc, hub, local_paths, df, out, files, stdout, text, once, twice>>

(***************************************************************************)
(* Bounds of the model.                                                    *)
(***************************************************************************)
MaxLen == 4      \* longest clean_diff argument of the sanitizer runs

(***************************************************************************)
(* Values.                                                                 *)
(***************************************************************************)
NULL == <<-1>>
Num(n) == <<-2, n>>
Float(n) == <<-3, n>>
NotYet == <<-9>>    \* a variable not assigned yet

IsNum(v) == Len(v) = 2 /\ v[1] = -2
IsFloat(v) == Len(v) = 2 /\ v[1] = -3
IsStr(v) == \A i \in 1..Len(v) : v[i] >= 0

\* pd.isna(v)
isna(v) == v = NULL

RECURSIVE Digits(_)
\* the decimal digits of a natural number, as code points
Digits(n) == IF n < 10 THEN <<48 + n>> ELSE Digits(n \div 10) \o <<48 + (n % 10)>>

\* str(v) of a cell value that is not None/NaN
str(v) ==
    IF IsNum(v) THEN Digits(v[2])
    ELSE IF IsFloat(v) THEN Digits(v[2]) \o <<46, 48>>
    ELSE v

BoundedSeq(S, n) == UNION {[1..k -> S] : k \in 0..n}

(***************************************************************************)
(* clean_diff                                                              *)
(***************************************************************************)
\* the character class [\r\n\t]
CrLfTab == {13, 10, 9}

\* the character class [\x00-\x1F\x7F-\x9F]
NonPrintableAlt(c) == (0 <= c /\ c <= 31) \/ (128 <= c /\ c <= 159)
NonPrintable(c) == (0 <= c /\ c <= 31) \/ (127 <= c /\ c <= 159)

\* str.isspace, on the code points below 256
isspace(c) == c \in {9, 10, 11, 12, 13, 28, 29, 30, 31, 32, 133, 160}

RECURSIVE RunEnd(_, _, _)
\* the first index >= i of s whose character is outside S (Len(s) + 1 if none)
RunEnd(s, i, S) ==
    IF i > Len(s) \/ s[i] \notin S THEN i ELSE RunEnd(s, i + 1, S)

RECURSIVE SubCrLfTab(_, _)
\* re.sub(r'[\r\n\t]+', ' ', s), scanning from index i
SubCrLfTab(s, i) ==
    IF i > Len(s) THEN <<>>
    ELSE IF s[i] \in CrLfTab
         THEN <<32>> \o SubCrLfTab(s, RunEnd(s, i, CrLfTab))
         ELSE <<s[i]>> \o SubCrLfTab(s, i + 1)

\* re.sub(r'[\x00-\x1F\x7F-\x9F]', '', s)
SubNonPrintable(s) == SelectSeq(s, LAMBDA c : ~NonPrintable(c))

RECURSIVE SubSpaces(_, _)
\* re.sub(r' {2,}', ' ', s), scanning from index i
SubSpaces(s, i) ==
    IF i > Len(s) THEN <<>>
    ELSE IF s[i] = 32 /\ i < Len(s) /\ s[i + 1] = 32
         THEN <<32>> \o SubSpaces(s, RunEnd(s, i, {32}))
         ELSE <<s[i]>> \o SubSpaces(s, i + 1)

\* str.strip()
strip(s) ==
    LET keep == {i \in 1..Len(s) : ~isspace(s[i])}
    IN  IF keep = {} THEN <<>>
        ELSE LET lo == CHOOSE i \in keep : \A j \in keep : i <= j
                 hi == CHOOSE i \in keep : \A j \in keep : j <= i
             IN  SubSeq(s, lo, hi)

\* a slip in the pipeline: spaces collapsed before the control characters go
clean_diff_Reordered(t) ==
    IF isna(t) THEN <<>>
    ELSE strip(SubNonPrintable(SubSpaces(SubCrLfTab(str(t), 1), 1)))

\* a slip in the pipeline: the result is not stripped
clean_diff_NoStrip(t) ==
    IF isna(t) THEN <<>>
    ELSE SubSpaces(SubNonPrintable(SubCrLfTab(str(t), 1)), 1)

clean_diff(t) ==
    IF isna(t) THEN <<>>
    ELSE strip(SubSpaces(SubNonPrintable(SubCrLfTab(str(t), 1)), 1))

(***************************************************************************)
(* DataFrames.  A frame is [cols, rows]: the column labels in order (pandas *)
(* allows a label to occur twice) and the rows, each a sequence of cell     *)
(* values aligned with cols.                                                *)
(***************************************************************************)
Labels(cols) == {cols[i] : i \in 1..Len(cols)}

RECURSIVE get_loc(_, _, _)
\* the positions, from i on, of the columns labelled name
get_loc(cols, name, i) ==
    IF i > Len(cols) THEN <<>>
    ELSE (IF cols[i] = name THEN <<i>> ELSE <<>>) \o get_loc(cols, name, i + 1)

RECURSIVE get_indexer(_, _)
\* frame[[names]]: for each name in turn, every column carrying it
get_indexer(cols, names) ==
    IF names = <<>> THEN <<>>
    ELSE get_loc(cols, Head(names), 1) \o get_indexer(cols, Tail(names))

\* the columns at the positions idx, as a new frame
take(t, idx) ==
    [cols |-> [j \in 1..Len(idx) |-> t.cols[idx[j]]],
     rows |-> [r \in 1..Len(t.rows) |-> [j \in 1..Len(idx) |-> t.rows[r][idx[j]]]]]

\* a slip: a missing label silently skipped (as reindex would) instead of raising
getitem_raises_Never(t, names) == FALSE

\* frame[[names]] raises KeyError when a name labels no column
getitem_raises(t, names) == Labels(names) \ Labels(t.cols) # {}
getitem(t, names) == take(t, get_indexer(t.cols, names))

\* DataFrame.rename(columns=m): a new frame; labels outside m are kept
rename(t, m) ==
    [cols |-> [i \in 1..Len(t.cols) |->
                 IF t.cols[i] \in DOMAIN m THEN m[t.cols[i]] ELSE t.cols[i]],
     rows |-> t.rows]

\* a slip: rename(columns=m, inplace=True) would leave df itself renamed
frame_after_rename_inplace(t, m) == rename(t, m)

\* the caller's frame after out = df.rename(columns=m): untouched
frame_after_rename(t, m) == t

\* DataFrame.to_csv(index=False): NaN is written as the empty field, anything
\* else as its str()
to_csv(t) ==
    [cols |-> t.cols,
     rows |-> [r \in 1..Len(t.rows) |->
                 [j \in 1..Len(t.cols) |->
                    IF isna(t.rows[r][j]) THEN <<>> ELSE str(t.rows[r][j])]]]

\* the fields pd.read_csv reads as NaN (its default na_values)
NaValues == {
    <<>>, \* ""
    <<35, 78, 47, 65>>, \* "#N/A"
    <<35, 78, 47, 65, 32, 78, 47, 65>>, \* "#N/A N/A"
    <<35, 78, 65>>, \* "#NA"
    <<45, 49, 46, 35, 73, 78, 68>>, \* "-1.#IND"
    <<45, 49, 46, 35, 81, 78, 65, 78>>, \* "-1.#QNAN"
    <<45, 78, 97, 78>>, \* "-NaN"
    <<45, 110, 97, 110>>, \* "-nan"
    <<49, 46, 35, 73, 78, 68>>, \* "1.#IND"
    <<49, 46, 35, 81, 78, 65, 78>>, \* "1.#QNAN"
    <<60, 78, 65, 62>>, \* "<NA>"
    <<78, 47, 65>>, \* "N/A"
    <<78, 65>>, \* "NA"
    <<78, 85, 76, 76>>, \* "NULL"
    <<78, 97, 78>>, \* "NaN"
    <<78, 111, 110, 101>>, \* "None"
    <<110, 47, 97>>, \* "n/a"
    <<110, 97, 110>>, \* "nan"
    <<110, 117, 108, 108>>  \* "null"
    }

IsIntLiteral(s) == s # <<>> /\ \A i \in 1..Len(s) : 48 <= s[i] /\ s[i] <= 57

\* a float literal with a zero fraction, the only floats of the model: "9.0"
IsFloatLiteral(s) ==
    /\ Len(s) >= 3
    /\ SubSeq(s, Len(s) - 1, Len(s)) = <<46, 48>>
    /\ IsIntLiteral(SubSeq(s, 1, Len(s) - 2))

RECURSIVE ParseInt(_)
ParseInt(s) ==
    IF s = <<>> THEN 0 ELSE 10 * ParseInt(SubSeq(s, 1, Len(s) - 1)) + (s[Len(s)] - 48)

\* read_csv's column type inference and NaN detection for column j
read_csv_cell(f, r, j) ==
    LET cell == f.rows[r][j]
        present == {q \in 1..Len(f.rows) : f.rows[q][j] \notin NaValues}
        allInt == \A q \in present : IsIntLiteral(f.rows[q][j])
        allNumber ==
            \A q \in present :
                IsIntLiteral(f.rows[q][j]) \/ IsFloatLiteral(f.rows[q][j])
        hasNa == \E q \in 1..Len(f.rows) : f.rows[q][j] \in NaValues
    IN  IF cell \in NaValues THEN NULL
        ELSE IF allInt /\ ~hasNa THEN Num(ParseInt(cell))
        ELSE IF allInt THEN Float(ParseInt(cell))
        ELSE IF allNumber
             THEN Float(ParseInt(IF IsIntLiteral(cell) THEN cell
                                 ELSE SubSeq(cell, 1, Len(cell) - 2)))
        ELSE cell

\* read_csv renames a repeated header X to X.1, X.2, ...
read_csv_header(cols, j) ==
    LET earlier == Cardinality({i \in 1..(j - 1) : cols[i] = cols[j]})
    IN  IF earlier = 0 THEN cols[j] ELSE cols[j] \o "." \o ToString(earlier)

\* pd.read_csv(path)
read_csv(f) ==
    [cols |-> [j \in 1..Len(f.cols) |-> read_csv_header(f.cols, j)],
     rows |-> [r \in 1..Len(f.rows) |->
                 [j \in 1..Len(f.cols) |-> read_csv_cell(f, r, j)]]]

(***************************************************************************)
(* produce_task1 .. produce_task4                                          *)
(***************************************************************************)
FILES == <<"all_pull_request", "all_repository", "pr_task_type", "pr_commit_details">>

\* the columns= argument of df.rename in produce_task<k>
RenameColumns(k) ==
    CASE k = 1 -> [c \in {"title", "id", "agent", "body", "repo_id", "repo_url"} |->
                     CASE c = "title" -> "TITLE" [] c = "id" -> "ID"
                       [] c = "agent" -> "AGENTNAME" [] c = "body" -> "BODYSTRING"
                       [] c = "repo_id" -> "REPOID" [] c = "repo_url" -> "REPOURL"]
      [] k = 2 -> [c \in {"id", "language", "stars", "url"} |->
                     CASE c = "id" -> "REPOID" [] c = "language" -> "LANG"
                       [] c = "stars" -> "STARS" [] c = "url" -> "REPOURL"]
      [] k = 3 -> [c \in {"id", "title", "reason", "type", "confidence"} |->
                     CASE c = "id" -> "PRID" [] c = "title" -> "PRTITLE"
                       [] c = "reason" -> "PRREASON" [] c = "type" -> "PRTYPE"
                       [] c = "confidence" -> "CONFIDENCE"]
      [] k = 4 -> [c \in {"pr_id", "sha", "message", "filename", "status",
                          "additions", "deletions", "changes", "patch"} |->
                     CASE c = "pr_id" -> "PRID" [] c = "sha" -> "PRSHA"
                       [] c = "message" -> "PRCOMMITMESSAGE" [] c = "filename" -> "PRFILE"
                       [] c = "status" -> "PRSTATUS" [] c = "additions" -> "PRADDS"
                       [] c = "deletions" -> "PRDELSS" [] c = "changes" -> "PRCHANGECOUNT"
                       [] c = "patch" -> "PRDIFF"]

\* the column list of out = out[[...]] in produce_task<k>
SelectColumns(k) ==
    CASE k = 1 -> <<"TITLE", "ID", "AGENTNAME", "BODYSTRING", "REPOID", "REPOURL">>
      [] k = 2 -> <<"REPOID", "LANG", "STARS", "REPOURL">>
      [] k = 3 -> <<"PRID", "PRTITLE", "PRREASON", "PRTYPE", "CONFIDENCE">>
      [] k = 4 -> <<"PRID", "PRSHA", "PRCOMMITMESSAGE", "PRFILE", "PRSTATUS",
                    "PRADDS", "PRDELSS", "PRCHANGECOUNT", "PRDIFF">>

\* out["PRDIFF"].apply(clean_diff) raises KeyError when no column is labelled
\* PRDIFF, and ValueError when two are: out["PRDIFF"] is then a frame, apply
\* hands clean_diff a whole column, and "if pd.isna(column)" has no truth value
apply_clean_diff_raises(t) == Len(get_loc(t.cols, "PRDIFF", 1)) # 1

\* a slip: every text column of task 4 cleaned, not PRDIFF alone
apply_clean_diff_AllText(t) ==
    [t EXCEPT !.rows =
        [r \in 1..Len(t.rows) |->
           [j \in 1..Len(t.cols) |->
              IF t.cols[j] \in {"PRDIFF", "PRCOMMITMESSAGE"}
              THEN clean_diff(t.rows[r][j]) ELSE t.rows[r][j]]]]

\* out["PRDIFF"] = out["PRDIFF"].apply(clean_diff)
apply_clean_diff(t) ==
    [t EXCEPT !.rows =
        [r \in 1..Len(t.rows) |->
           [j \in 1..Len(t.cols) |->
              IF t.cols[j] = "PRDIFF" THEN clean_diff(t.rows[r][j]) ELSE t.rows[r][j]]]]

\* produce_task<k> raises before its to_csv
produce_task_raises(k, d) ==
    LET renamed == rename(d, RenameColumns(k))
    IN  \/ k = 4 /\ apply_clean_diff_raises(renamed)
        \/ getitem_raises(renamed, SelectColumns(k))

\* the frame out that produce_task<k> hands to to_csv
produce_task_out(k, d) ==
    LET renamed == rename(d, RenameColumns(k))
        cleaned == IF k = 4 THEN apply_clean_diff(renamed) ELSE renamed
    IN  getitem(cleaned, SelectColumns(k))

(***************************************************************************)
(* produce_task5                                                           *)
(***************************************************************************)
security_keywords == <<
    <<114, 97, 99, 101>>,  \* "race"
    <<114, 97, 99, 121>>,  \* "racy"
    <<98, 117, 102, 102, 101, 114>>,  \* "buffer"
    <<111, 118, 101, 114, 102, 108, 111, 119>>,  \* "overflow"
    <<115, 116, 97, 99, 107>>,  \* "stack"
    <<105, 110, 116, 101, 103, 101, 114>>,  \* "integer"
    <<115, 105, 103, 110, 101, 100, 110, 101, 115, 115>>,  \* "signedness"
    <<117, 110, 100, 101, 114, 102, 108, 111, 119>>,  \* "underflow"
    <<105, 109, 112, 114, 111, 112, 101, 114>>,  \* "improper"
    <<117, 110, 97, 117, 116, 104, 101, 110, 116, 105, 99, 97, 116, 101, 100>>,  \* "unauthenticated"
    <<103, 97, 105, 110, 32, 97, 99, 99, 101, 115, 115>>,  \* "gain access"
    <<112, 101, 114, 109, 105, 115, 115, 105, 111, 110>>,  \* "permission"
    <<99, 114, 111, 115, 115, 32, 115, 105, 116, 101>>,  \* "cross site"
    <<99, 115, 115>>,  \* "css"
    <<120, 115, 115>>,  \* "xss"
    <<100, 101, 110, 105, 97, 108, 32, 115, 101, 114, 118, 105, 99, 101>>,  \* "denial service"
    <<100, 111, 115>>,  \* "dos"
    <<99, 114, 97, 115, 104>>,  \* "crash"
    <<100, 101, 97, 100, 108, 111, 99, 107>>,  \* "deadlock"
    <<105, 110, 106, 101, 99, 116, 105, 111, 110>>,  \* "injection"
    <<114, 101, 113, 117, 101, 115, 116, 32, 102, 111, 114, 103, 101, 114, 121>>,  \* "request forgery"
    <<99, 115, 114, 102>>,  \* "csrf"
    <<120, 115, 114, 102>>,  \* "xsrf"
    <<102, 111, 114, 103, 101, 100>>,  \* "forged"
    <<115, 101, 99, 117, 114, 105, 116, 121>>,  \* "security"
    <<118, 117, 108, 110, 101, 114, 97, 98, 105, 108, 105, 116, 121>>,  \* "vulnerability"
    <<118, 117, 108, 110, 101, 114, 97, 98, 108, 101>>,  \* "vulnerable"
    <<101, 120, 112, 108, 111, 105, 116>>,  \* "exploit"
    <<97, 116, 116, 97, 99, 107>>,  \* "attack"
    <<98, 121, 112, 97, 115, 115>>,  \* "bypass"
    <<98, 97, 99, 107, 100, 111, 111, 114>>,  \* "backdoor"
    <<116, 104, 114, 101, 97, 116>>,  \* "threat"
    <<101, 120, 112, 111, 115, 101>>,  \* "expose"
    <<98, 114, 101, 97, 99, 104>>,  \* "breach"
    <<118, 105, 111, 108, 97, 116, 101>>,  \* "violate"
    <<102, 97, 116, 97, 108>>,  \* "fatal"
    <<98, 108, 97, 99, 107, 108, 105, 115, 116>>,  \* "blacklist"
    <<111, 118, 101, 114, 114, 117, 110>>,  \* "overrun"
    <<105, 110, 115, 101, 99, 117, 114, 101>>   \* "insecure"
    >>

\* str.lower(), on the code points below 256
lower(s) ==
    [i \in 1..Len(s) |->
        IF (65 <= s[i] /\ s[i] <= 90) \/ (192 <= s[i] /\ s[i] <= 222 /\ s[i] # 215)
        THEN s[i] + 32 ELSE s[i]]

\* kw in text
contains(t, kw) ==
    \E i \in 0..(Len(t) - Len(kw)) : SubSeq(t, i + 1, i + Len(kw)) = kw

\* row.get(name): the cell labelled name, None when the row has no such label
row_get(cols, row, name) ==
    LET loc == get_loc(cols, name, 1)
    IN  IF loc = <<>> THEN NULL ELSE row[loc[1]]

RECURSIVE scan_keywords(_, _, _)
\* for kw in keywords: if kw in text: return 1 ... return 0
scan_keywords(keywords, t, i) ==
    IF i > Len(keywords) THEN 0
    ELSE IF contains(t, lower(keywords[i])) THEN 1
    ELSE scan_keywords(keywords, t, i + 1)

\* a slip: the text is not lower-cased
security_text_NoLower(cols, row) ==
    LET title == IF isna(row_get(cols, row, "TITLE")) THEN <<>>
                 ELSE str(row_get(cols, row, "TITLE"))
        body == IF isna(row_get(cols, row, "BODYSTRING")) THEN <<>>
                ELSE str(row_get(cols, row, "BODYSTRING"))
    IN  title \o <<32>> \o body

\* the text has_security_flag scans: f"{title} {body}"
security_text(cols, row) ==
    LET title == IF isna(row_get(cols, row, "TITLE")) THEN <<>>
                 ELSE lower(str(row_get(cols, row, "TITLE")))
        body == IF isna(row_get(cols, row, "BODYSTRING")) THEN <<>>
                ELSE lower(str(row_get(cols, row, "BODYSTRING")))
    IN  title \o <<32>> \o body

has_security_flag(cols, row) ==
    scan_keywords(security_keywords, security_text(cols, row), 1)

RECURSIVE matching_rows_First(_, _, _, _)
\* a slip: the right frame deduplicated on its key, only the first match kept
matching_rows_First(right, ri, key, q) ==
    IF q > Len(right.rows) THEN <<>>
    ELSE IF right.rows[q][ri] = key THEN <<right.rows[q]>>
    ELSE matching_rows_First(right, ri, key, q + 1)

RECURSIVE matching_rows(_, _, _, _)
\* the rows of the right frame, from q on, whose key equals key
matching_rows(right, ri, key, q) ==
    IF q > Len(right.rows) THEN <<>>
    ELSE (IF right.rows[q][ri] = key THEN <<right.rows[q]>> ELSE <<>>)
            \o matching_rows(right, ri, key, q + 1)

RECURSIVE merge_rows_Inner(_, _, _, _, _)
\* a slip: how="inner", which drops the left rows that match nothing
merge_rows_Inner(left, right, li, ri, p) ==
    IF p > Len(left.rows) THEN <<>>
    ELSE LET l == left.rows[p]
             m == matching_rows(right, ri, l[li], 1)
         IN  [q \in 1..Len(m) |-> l \o m[q]]
                \o merge_rows_Inner(left, right, li, ri, p + 1)

RECURSIVE merge_rows(_, _, _, _, _)
\* how="left": each left row, from p on, once per matching right row in the
\* right frame's order, or once with NaN in the right columns
merge_rows(left, right, li, ri, p) ==
    IF p > Len(left.rows) THEN <<>>
    ELSE LET l == left.rows[p]
             m == matching_rows(right, ri, l[li], 1)
             joined == IF m = <<>>
                       THEN <<l \o [j \in 1..Len(right.cols) |-> NULL]>>
                       ELSE [q \in 1..Len(m) |-> l \o m[q]]
         IN  joined \o merge_rows(left, right, li, ri, p + 1)

\* df1.merge(df3, left_on=.., right_on=.., how="left", suffixes=("", "_task3"))
merge(left, right, left_on, right_on) ==
    LET li == get_loc(left.cols, left_on, 1)[1]
        ri == get_loc(right.cols, right_on, 1)[1]
        rows == merge_rows(left, right, li, ri, 1)
        n == Len(left.cols)
        \* an int column of the right frame turns float once a NaN enters it
        widened(j) == \E r \in 1..Len(rows) : rows[r][n + j] = NULL
    IN  [cols |-> left.cols \o
                    [j \in 1..Len(right.cols) |->
                        IF right.cols[j] \in Labels(left.cols)
                        THEN right.cols[j] \o "_task3" ELSE right.cols[j]],
         rows |-> [r \in 1..Len(rows) |->
                     [j \in 1..Len(rows[r]) |->
                        IF j > n /\ IsNum(rows[r][j]) /\ widened(j - n)
                        THEN Float(rows[r][j][2]) ELSE rows[r][j]]]]

\* produce_task5 raises KeyError when a column it names is not there
produce_task5_raises(f1, f3) ==
    LET df1 == read_csv(f1)
        df3 == read_csv(f3)
    IN  \/ "ID" \notin Labels(df1.cols)
        \/ "PRID" \notin Labels(df3.cols)
        \/ "AGENTNAME" \notin Labels(df1.cols)
        \/ {"PRTYPE", "CONFIDENCE"} \ Labels(df3.cols) # {}

\* the frame out that produce_task5 hands to to_csv
produce_task5_out(f1, f3) ==
    LET df1 == read_csv(f1)
        df3 == read_csv(f3)
        merged == merge(df1, df3, "ID", "PRID")
        from == <<"ID", "AGENTNAME", "PRTYPE", "CONFIDENCE">>
    IN  [cols |-> <<"ID", "AGENT", "TYPE", "CONFIDENCE", "SECURITY">>,
         rows |-> [r \in 1..Len(merged.rows) |->
                     [j \in 1..5 |->
                        IF j = 5
                        THEN Num(has_security_flag(merged.cols, merged.rows[r]))
                        ELSE row_get(merged.cols, merged.rows[r], from[j])]]]

(***************************************************************************)
(* main                                                                    *)
(***************************************************************************)
\* the FILES key main downloads next
NextKey == FILES[Cardinality(DOMAIN local_paths) + 1]

\* one turn of main's download loop: download_parquet(key, fname) returns the
\* local copy, or raises and main re-raises
download_parquet ==
    /\ pc = "download"
    /\ IF NextKey \in DOMAIN hub
       THEN /\ local_paths' = local_paths @@ (NextKey :> hub[NextKey])
            /\ stdout' = stdout \o <<"Downloading " \o NextKey, "saved " \o NextKey>>
            /\ pc' = IF Cardinality(DOMAIN local_paths) + 1 = Len(FILES)
                     THEN "task1" ELSE "download"
       ELSE /\ local_paths' = local_paths
            /\ stdout' = stdout \o <<"Downloading " \o NextKey>>
            /\ pc' = "aborted"
    /\ UNCHANGED <<hub, df, out, files, text, once, twice>>

\* a slip: main calling produce_task3 before produce_task2
after_task_Swapped(k) ==
    CASE k = 1 -> "task3" [] k = 3 -> "task2" [] k = 2 -> "task4" [] k = 4 -> "task5"

\* where main goes once produce_task<k> has returned
after_task(k) == "task" \o ToString(k + 1)

\* produce_task<k>(local_paths[FILES[k]]), k in 1..4, called from main
produce_task(k) ==
    /\ pc = "task" \o ToString(k)
    /\ LET d == local_paths[FILES[k]]    \* pd.read_parquet
       IN  /\ df' = df @@ (k :> frame_after_rename(d, RenameColumns(k)))
           /\ IF produce_task_raises(k, d)
              THEN /\ pc' = "aborted"
                   /\ stdout' = Append(stdout, "Producing Task-" \o ToString(k))
                   /\ UNCHANGED <<out, files>>
              ELSE /\ pc' = after_task(k)
                   /\ out' = out @@ (k :> produce_task_out(k, d))
                   /\ files' = (k :> to_csv(produce_task_out(k, d))) @@ files
                   /\ stdout' = stdout \o <<"Producing Task-" \o ToString(k),
                                            "Wrote task" \o ToString(k)>>
    /\ UNCHANGED <<hub, local_paths, text, once, twice>>

produce_task1 == produce_task(1)
produce_task2 == produce_task(2)
produce_task3 == produce_task(3)
produce_task4 == produce_task(4)

\* produce_task5(OUT_DIR / task1 csv, OUT_DIR / task3 csv), then main's last line
produce_task5 ==
    /\ pc = "task5"
    /\ IF produce_task5_raises(files[1], files[3])
       THEN /\ pc' = "aborted"
            /\ UNCHANGED <<out, files, stdout>>
       ELSE /\ pc' = "done"
            /\ out' = out @@ (5 :> produce_task5_out(files[1], files[3]))
            /\ files' = (5 :> to_csv(produce_task5_out(files[1], files[3]))) @@ files
            /\ stdout' = stdout \o <<"Scanning", "Wrote task5", "All done">>
    /\ UNCHANGED <<hub, local_paths, df, text, once, twice>>

main ==
    \/ download_parquet
    \/ produce_task1
    \/ produce_task2
    \/ produce_task3
    \/ produce_task4
    \/ produce_task5

(***************************************************************************)
(* The datasets the pipeline is run on.  A source table is a column layout *)
(* and a sequence of records; no text cell of these tables holds a bare    *)
(* carriage return or a digit.                                             *)
(***************************************************************************)
MaxRows == 2     \* most rows of a source table
MaxTokens == 2   \* most tokens of a generated PR title

MakeTable(layout, records) ==
    [cols |-> layout,
     rows |-> [r \in 1..Len(records) |->
                 [j \in 1..Len(layout) |-> records[r][layout[j]]]]]

TxtXssFix == <<70, 105, 120, 32, 88, 83, 83>>          \* "Fix XSS"
TxtOk == <<111, 107>>                                  \* "ok"
TxtOld == <<111, 108, 100>>                            \* "old"
TxtDevin == <<68, 101, 118, 105, 110>>                 \* "Devin"
TxtFix == <<102, 105, 120>>                            \* "fix"
TxtFeat == <<102, 101, 97, 116>>                       \* "feat"
TxtNone == <<78, 111, 110, 101>>                       \* "None"
TxtTwoLines == <<109, 13, 10, 9, 110>>                 \* "m\r\n\tn"
TxtPatch == <<32, 97, 13, 10, 9, 98, 1, 32, 32, 99>>   \* " a\r\n\tb\x01  c"

\* the words PR titles and bodies are put together from:
\* "XSS", "gain", "access", " ", "Dos", "ok", "NA"
Tokens == {<<88, 83, 83>>, <<103, 97, 105, 110>>, <<97, 99, 99, 101, 115, 115>>,
           <<32>>, <<68, 111, 115>>, <<111, 107>>, <<78, 65>>}

RECURSIVE TokenStrings(_)
TokenStrings(n) ==
    IF n = 0 THEN {<<>>}
    ELSE TokenStrings(n - 1) \cup {s \o t : s \in TokenStrings(n - 1), t \in Tokens}

\* a record of all_pull_request
PrRecord(id, title, body, agent) ==
    [c \in {"id", "number", "title", "body", "agent", "repo_id", "repo_url", "TITLE"} |->
        CASE c = "id" -> Num(id) [] c = "number" -> Num(40 + id)
          [] c = "title" -> title [] c = "body" -> body [] c = "agent" -> agent
          [] c = "repo_id" -> Num(7) [] c = "repo_url" -> TxtOk
          [] c = "TITLE" -> TxtOld]

\* a record of all_repository
RepoRecord(id, language) ==
    [c \in {"id", "url", "language", "stars", "forks", "LANG"} |->
        CASE c = "id" -> Num(id) [] c = "url" -> TxtOk
          [] c = "language" -> language [] c = "stars" -> Num(12)
          [] c = "forks" -> Num(0) [] c = "LANG" -> TxtOld]

\* a record of pr_task_type
TypeRecord(id, type, confidence) ==
    [c \in {"id", "title", "reason", "type", "confidence", "PRTYPE"} |->
        CASE c = "id" -> Num(id) [] c = "title" -> TxtXssFix
          [] c = "reason" -> TxtTwoLines [] c = "type" -> type
          [] c = "confidence" -> confidence [] c = "PRTYPE" -> TxtOld]

\* a record of pr_commit_details
CommitRecord(id, patch) ==
    [c \in {"sha", "pr_id", "message", "filename", "status", "additions",
            "deletions", "changes", "patch", "PRFILE", "PRDIFF"} |->
        CASE c = "sha" -> TxtOk [] c = "pr_id" -> Num(id)
          [] c = "message" -> TxtTwoLines [] c = "filename" -> TxtFix
          [] c = "status" -> TxtFeat [] c = "additions" -> Num(3)
          [] c = "deletions" -> Num(1) [] c = "changes" -> Num(4)
          [] c = "patch" -> patch [] c = "PRFILE" -> TxtOld
          [] c = "PRDIFF" -> TxtOld]

Records(k) ==
    CASE k = 1 -> {PrRecord(1, TxtXssFix, NULL, TxtDevin), PrRecord(2, TxtNone, TxtOk, NULL),
                   PrRecord(1, NULL, NULL, TxtNone), PrRecord(2, TxtOk, TxtXssFix, TxtDevin)}
      [] k = 2 -> {RepoRecord(1, TxtOk), RepoRecord(2, NULL)}
      [] k = 3 -> {TypeRecord(1, TxtFix, Float(9)), TypeRecord(1, TxtFeat, NULL),
                   TypeRecord(3, TxtFix, Float(9)), TypeRecord(3, NULL, Float(0))}
      [] k = 4 -> {CommitRecord(1, TxtPatch), CommitRecord(2, NULL)}

\* the table's own layout
Layout(k) ==
    CASE k = 1 -> <<"id", "number", "title", "body", "agent", "repo_id", "repo_url">>
      [] k = 2 -> <<"id", "url", "language", "stars", "forks">>
      [] k = 3 -> <<"id", "title", "reason", "type", "confidence">>
      [] k = 4 -> <<"sha", "pr_id", "message", "filename", "status", "additions",
                    "deletions", "changes", "patch">>

\* a layout without one of the columns the task needs
LayoutLacking(k) ==
    CASE k = 1 -> <<"id", "number", "title", "agent", "repo_id", "repo_url">>
      [] k = 2 -> <<"id", "url", "language", "forks">>
      [] k = 3 -> <<"id", "title", "type", "confidence">>
      [] k = 4 -> <<"sha", "pr_id", "message", "status", "additions",
                    "deletions", "changes", "patch">>

\* layouts with a column that already carries one of the output names, beside
\* the source column of that output or in its place
Layouts(k) ==
    {Layout(k), LayoutLacking(k)} \cup
    CASE k = 1 -> {<<"id", "TITLE", "title", "body", "agent", "repo_id", "repo_url">>,
                   <<"id", "TITLE", "body", "agent", "repo_id", "repo_url">>}
      [] k = 2 -> {<<"id", "url", "language", "LANG", "stars">>}
      [] k = 3 -> {<<"id", "title", "reason", "type", "PRTYPE", "confidence">>}
      [] k = 4 -> {<<"sha", "pr_id", "message", "filename", "PRFILE", "status",
                     "additions", "deletions", "changes", "patch">>,
                   <<"sha", "pr_id", "message", "filename", "status", "additions",
                     "deletions", "changes", "PRDIFF", "patch">>,
                   <<"sha", "pr_id", "message", "filename", "status", "additions",
                     "deletions", "changes">>}

DefaultRecord(k) ==
    CASE k = 1 -> PrRecord(1, TxtXssFix, NULL, TxtDevin)
      [] k = 2 -> RepoRecord(1, TxtOk)
      [] k = 3 -> TypeRecord(1, TxtFix, Float(9))
      [] k = 4 -> CommitRecord(1, TxtPatch)

DefaultDataset == [key \in Labels(FILES) |->
                     LET k == CHOOSE i \in 1..4 : FILES[i] = key
                     IN  MakeTable(Layout(k), <<DefaultRecord(k)>>)]

\* the tables of source k: any layout, up to MaxRows records.  A table with
\* both a patch and a PRDIFF column has at least one row.
Tables(k) ==
    {t \in {MakeTable(l, rs) : l \in Layouts(k), rs \in BoundedSeq(Records(k), MaxRows)} :
        ~({"patch", "PRDIFF"} \subseteq Labels(t.cols) /\ t.rows = <<>>)}

\* one source table in any of its layouts, the others as they come
LayoutDatasets ==
    UNION {{[DefaultDataset EXCEPT ![FILES[k]] = t] : t \in Tables(k)} : k \in 1..4}

\* any pull requests against any classifications, both in their own layout
JoinDatasets ==
    {[DefaultDataset EXCEPT
        !["all_pull_request"] = MakeTable(Layout(1), prs),
        !["pr_task_type"] = MakeTable(Layout(3), cls)] :
        prs \in BoundedSeq(Records(1), MaxRows), cls \in BoundedSeq(Records(3), MaxRows)}

\* one pull request whose title and body are put together from the tokens
TextDatasets ==
    {[DefaultDataset EXCEPT
        !["all_pull_request"] = MakeTable(Layout(1), <<PrRecord(1, title, body, TxtDevin)>>)] :
        title \in TokenStrings(MaxTokens) \cup {NULL},
        body \in TokenStrings(1) \cup {NULL}}

\* every source either in its own layout or lacking a column
LackingDatasets ==
    {[key \in Labels(FILES) |->
        LET k == CHOOSE i \in 1..4 : FILES[i] = key
        IN  MakeTable(IF k \in bad THEN LayoutLacking(k) ELSE Layout(k),
                      <<DefaultRecord(k)>>)] : bad \in SUBSET (1..4)}

\* some of the four files cannot be downloaded
UnavailableDatasets ==
    {[key \in have |-> DefaultDataset[key]] : have \in (SUBSET Labels(FILES)) \ {Labels(FILES)}}

Datasets ==
    LayoutDatasets \cup JoinDatasets \cup TextDatasets \cup LackingDatasets
        \cup UnavailableDatasets

Init ==
    /\ pc = "download"
    /\ hub \in Datasets
    /\ local_paths = <<>>
    /\ df = <<>>
    /\ out = <<>>
    /\ files = <<>>
    /\ stdout = <<>>
    /\ text = NotYet
    /\ once = NotYet
    /\ twice = NotYet

Next == main

Spec == Init /\ [][Next]_vars

(***************************************************************************)
(* Sanitizer runs: clean_diff applied to an argument, then to its result.  *)
(***************************************************************************)
\* CR, LF, the controls 0x1F, 0x7F and 0x9F, space, NBSP and "a"
SanAlphabet == {13, 10, 31, 127, 159, 32, 160, 97}

\* the fix-bug example of the sanitizer: "fix bug\r\n\tline2"
ScenarioA == <<102, 105, 120, 32, 98, 117, 103, 13, 10, 9, 108, 105, 110, 101, 50>>

\* a control character lying between two spaces: "a", space, 0x1F, space, "a"
ControlBetweenSpaces == <<97, 32, 31, 32, 97>>

SanInputs ==
    BoundedSeq(SanAlphabet, MaxLen)
        \cup {NULL, Num(7), Num(120), Float(3), ScenarioA, ControlBetweenSpaces}

Idle ==
    /\ hub = <<>> /\ local_paths = <<>> /\ df = <<>> /\ out = <<>>
    /\ files = <<>> /\ stdout = <<>>

InitSan ==
    /\ pc = "sanitize"
    /\ Idle
    /\ text \in SanInputs
    /\ once = NotYet
    /\ twice = NotYet

Sanitize ==
    /\ pc = "sanitize"
    /\ once = NotYet
    /\ once' = clean_diff(text)
    /\ UNCHANGED <<pc, hub, local_paths, df, out, files, stdout, text, twice>>

SanitizeAgain ==
    /\ pc = "sanitize"
    /\ once # NotYet
    /\ twice = NotYet
    /\ twice' = clean_diff(once)
    /\ UNCHANGED <<pc, hub, local_paths, df, out, files, stdout, text, once>>

NextSan == Sanitize \/ SanitizeAgain

SpecSan == InitSan /\ [][NextSan]_vars

(***************************************************************************)
(* The sanitizer's reference pipeline, stated position by position.        *)
(***************************************************************************)
\* the n-th smallest member of the index set K
Nth(K, n) == CHOOSE i \in K : Cardinality({j \in K : j <= i}) = n

\* the characters of s at the positions K, in order
AtPositions(s, K) == [n \in 1..Cardinality(K) |-> s[Nth(K, n)]]

\* every maximal run of CR/LF/tab becomes one space
RefRuns(s) ==
    LET first == {i \in 1..Len(s) :
                    s[i] \notin {13, 10, 9} \/ i = 1 \/ s[i - 1] \notin {13, 10, 9}}
        t == [i \in 1..Len(s) |-> IF s[i] \in {13, 10, 9} THEN 32 ELSE s[i]]
    IN  AtPositions(t, first)

\* every C0 control and every character of 0x7F-0x9F is deleted
RefControls(s) ==
    AtPositions(s, {i \in 1..Len(s) : s[i] \notin (0..31) \cup (127..159)})

\* every run of two or more spaces becomes one space
RefSpaces(s) ==
    AtPositions(s, {i \in 1..Len(s) : s[i] # 32 \/ i = 1 \/ s[i - 1] # 32})

RECURSIVE RefTrim(_)
\* leading and trailing whitespace is trimmed
RefTrim(s) ==
    LET white == {9, 10, 11, 12, 13, 32, 133, 160}
    IN  IF s = <<>> THEN s
        ELSE IF Head(s) \in white THEN RefTrim(Tail(s))
        ELSE IF s[Len(s)] \in white THEN RefTrim(SubSeq(s, 1, Len(s) - 1))
        ELSE s

RefSanitize(t) ==
    IF t = NULL THEN <<>> ELSE RefTrim(RefSpaces(RefControls(RefRuns(str(t)))))

\* C4: clean_diff is idempotent: applied to its own result on any argument
\* (None/NaN included) it returns that result unchanged.
C4_Idempotent == twice # NotYet => twice = once

\* a sanitizer run whose first pass changed the argument and whose second
\* pass has been made
C4_Witness == twice # NotYet /\ text # NULL /\ once # text /\ Len(once) >= 2

\* C5: the result of clean_diff holds no CR, LF or tab and no character of
\* 0x00-0x1F or 0x7F-0x9F.
C5_NoControls ==
    once # NotYet =>
        \A i \in 1..Len(once) :
            once[i] \notin {13, 10, 9} \cup (0..31) \cup (127..159)

\* a run on an argument holding DEL and 0x9F with a non-empty result
C5_Witness ==
    /\ once # NotYet /\ text # NULL /\ once # <<>>
    /\ \E i, j \in 1..Len(text) : text[i] = 127 /\ text[j] = 159

\* C6: clean_diff is total and equals the reference pipeline (runs of
\* CR/LF/tab to one space, controls deleted, runs of spaces to one space,
\* trimmed); None gives ""; "fix bug\r\n\tline2" gives "fix bug line2"; a
\* control between two spaces leaves one space.
C6_Reference ==
    /\ once # NotYet => once = RefSanitize(text)
    /\ (once # NotYet /\ text = NULL) => once = <<>>
    /\ (once # NotYet /\ text = ScenarioA) =>
          once = <<102, 105, 120, 32, 98, 117, 103, 32, 108, 105, 110, 101, 50>>
    /\ (once # NotYet /\ text = ControlBetweenSpaces) => once = <<97, 32, 97>>

\* the run on "a", space, 0x1F, space, "a" has been made
C6_Witness == once = <<97, 32, 97>> /\ text = ControlBetweenSpaces

(***************************************************************************)
(* The join and the projections, stated from outside the code.             *)
(***************************************************************************)
\* the frames produce_task5 read: the PR table and the classification table
df1 == read_csv(files[1])
df3 == read_csv(files[3])

Cell(t, r, name) == t.rows[r][CHOOSE j \in 1..Len(t.cols) : t.cols[j] = name]

\* the classification rows of PR row p
Matches(prs, cls, p) ==
    {q \in 1..Len(cls.rows) : Cell(cls, q, "PRID") = Cell(prs, p, "ID")}

\* the rows of the left join: <<p, q>> for classification row q of PR row p,
\* <<p, 0>> for a PR row without one
JoinPairs(prs, cls) ==
    {<<p, q>> \in (1..Len(prs.rows)) \X (0..Len(cls.rows)) :
        IF q = 0 THEN Matches(prs, cls, p) = {} ELSE q \in Matches(prs, cls, p)}

\* the pairs in output order: PR order first, classification order next
JoinOrder(prs, cls) ==
    LET pairs == JoinPairs(prs, cls)
        before(o, pair) == o[1] < pair[1] \/ (o[1] = pair[1] /\ o[2] <= pair[2])
    IN  [r \in 1..Cardinality(pairs) |->
            CHOOSE pair \in pairs : Cardinality({o \in pairs : before(o, pair)}) = r]

\* the flag of a title and a body: some keyword is a substring of
\* lowercase(title) + " " + lowercase(body), a missing one counting as ""
RefFlag(title, body) ==
    LET t == (IF title = NULL THEN <<>> ELSE lower(str(title)))
                \o <<32>> \o (IF body = NULL THEN <<>> ELSE lower(str(body)))
    IN  IF \E i \in 1..Len(security_keywords) : contains(t, security_keywords[i])
        THEN Num(1) ELSE Num(0)

\* C1 as stated: the combined output has exactly as many rows as the PR table.
C1_Original == 5 \in DOMAIN out => Len(out[5].rows) = Len(files[1].rows)

\* C1 (amended): the join drops no PR row and repeats one only for its extra
\* classification rows: the output has max(1, matches) rows per PR row, each
\* PR row's id is in it, and it has exactly len(pr) rows when no PR id has
\* two classification rows.
C1_Amended ==
    5 \in DOMAIN out =>
        LET prs == df1
            cls == df3
            order == JoinOrder(prs, cls)
            n == Len(out[5].rows)
        IN  /\ n = Len(order)
            /\ Len(files[5].rows) = n
            /\ n >= Len(prs.rows)
            /\ \A p \in 1..Len(prs.rows) :
                  /\ Cardinality({r \in 1..n : order[r][1] = p})
                        = IF Matches(prs, cls, p) = {} THEN 1
                          ELSE Cardinality(Matches(prs, cls, p))
                  /\ \E r \in 1..n : out[5].rows[r][1] = Cell(prs, p, "ID")
            /\ (\A p \in 1..Len(prs.rows) : Cardinality(Matches(prs, cls, p)) <= 1)
                  => n = Len(prs.rows)

\* a join of two PR rows, one with two classification rows and one with none
C1_Witness ==
    /\ 5 \in DOMAIN out
    /\ Len(files[1].rows) = 2
    /\ LET prs == df1
           cls == df3
       IN  \E p, u \in 1..2 :
              Cardinality(Matches(prs, cls, p)) = 2 /\ Matches(prs, cls, u) = {}
    /\ Len(out[5].rows) = 3

C3_LeftJoin ==
    5 \in DOMAIN out =>
        LET prs == df1
            cls == df3
            order == JoinOrder(prs, cls)
        IN  /\ out[5].cols = <<"ID", "AGENT", "TYPE", "CONFIDENCE", "SECURITY">>
            /\ Len(out[5].rows) = Len(order)
            /\ \A r \in 1..Len(order) :
                  LET p == order[r][1]
                      q == order[r][2]
                  IN  out[5].rows[r] =
                        << Cell(prs, p, "ID"),
                           Cell(prs, p, "AGENTNAME"),
                           IF q = 0 THEN NULL ELSE Cell(cls, q, "PRTYPE"),
                           IF q = 0 THEN NULL ELSE Cell(cls, q, "CONFIDENCE"),
                           RefFlag(Cell(prs, p, "TITLE"), Cell(prs, p, "BODYSTRING")) >>
            /\ files[5] = to_csv(out[5])

\* a join in which one PR has two classification rows of different types and
\* another, flagged, PR has none
C3_Witness ==
    /\ 5 \in DOMAIN out
    /\ Len(out[5].rows) = 3
    /\ LET order == JoinOrder(df1, df3)
       IN  /\ \E r \in 1..2 :
                 /\ order[r][1] = order[r + 1][1]
                 /\ out[5].rows[r][3] # out[5].rows[r + 1][3]
           /\ \E r \in 1..3 :
                 /\ order[r][2] = 0
                 /\ out[5].rows[r][3] = NULL /\ out[5].rows[r][4] = NULL
                 /\ out[5].rows[r][5] = Num(1)

(***************************************************************************)
(* The projections.                                                        *)
(***************************************************************************)
\* the source table produce_task<k> loaded
Source(k) == local_paths[FILES[k]]

\* the label a source column carries in the output of task k
OutputLabel(k, c) == IF c \in DOMAIN RenameColumns(k) THEN RenameColumns(k)[c] ELSE c

\* the source columns that carry the output label o, in table order
SourcesOf(k, o) == {j \in 1..Len(Source(k).cols) : OutputLabel(k, Source(k).cols[j]) = o}

\* the source column of output column j: the n-th column labelled like it
\* comes from the n-th source column that carries the label
SourceOf(k, j) ==
    LET o == out[k].cols[j]
        n == Cardinality({i \in 1..j : out[k].cols[i] = o})
    IN  Nth(SourcesOf(k, o), n)

\* C7 as stated: for a source table that has the source columns the task
\* renames, whatever else it holds, the columns written by a projection task
\* are exactly its declared list, each once, in order.
C7_ExactColumns ==
    \A k \in DOMAIN files \cap (1..4) :
        DOMAIN RenameColumns(k) \subseteq Labels(Source(k).cols) =>
            /\ out[k].cols = SelectColumns(k)
            /\ files[k].cols = SelectColumns(k)

\* the source table of task k lacks a column its output needs: no column
\* carries one of the declared labels
Lacks(k) == \E i \in 1..Len(SelectColumns(k)) : SourcesOf(k, SelectColumns(k)[i]) = {}

C9_ValuesUnchanged ==
    \A k \in DOMAIN out \cap (1..4) :
        LET from == [j \in 1..Len(out[k].cols) |-> SourceOf(k, j)]
            src == Source(k)
        IN  /\ Len(out[k].rows) = Len(src.rows)
            /\ Len(files[k].rows) = Len(src.rows)
            /\ Labels(SelectColumns(k)) \subseteq Labels(out[k].cols)
            /\ \A i \in 1..Len(out[k].rows) : \A j \in 1..Len(out[k].cols) :
                  out[k].rows[i][j] =
                     IF out[k].cols[j] = "PRDIFF"
                     THEN RefSanitize(src.rows[i][from[j]])
                     ELSE src.rows[i][from[j]]
            /\ df[k] = src

\* task 4 wrote two commit rows: a patch that the sanitizer changed, beside a
\* commit message with a line break that stayed
C9_Witness ==
    /\ 4 \in DOMAIN out
    /\ Len(out[4].rows) = 2
    /\ out[4].rows[1][9] = <<97, 32, 98, 32, 99>>
    /\ Source(4).rows[1][9] = TxtPatch
    /\ out[4].rows[1][3] = TxtTwoLines

\* the lines of a complete run, in order
FullRun ==
    << "Downloading all_pull_request", "saved all_pull_request",
       "Downloading all_repository", "saved all_repository",
       "Downloading pr_task_type", "saved pr_task_type",
       "Downloading pr_commit_details", "saved pr_commit_details",
       "Producing Task-1", "Wrote task1", "Producing Task-2", "Wrote task2",
       "Producing Task-3", "Wrote task3", "Producing Task-4", "Wrote task4",
       "Scanning", "Wrote task5", "All done" >>

\* the tasks whose "Wrote" line has been printed
Written(lines) ==
    {k \in 1..5 : \E i \in 1..Len(lines) : lines[i] = "Wrote task" \o ToString(k)}

\* C10: the steps of main happen in one order: the four downloads, tasks 1
\* to 4, then task 5.  No file is written unless all four downloads
\* succeeded, and task 5 reads the task-1 and task-3 files after both were
\* written in the same run.
C10_FixedOrder ==
    LET written == Written(stdout)
    IN  /\ Len(stdout) <= Len(FullRun) /\ stdout = SubSeq(FullRun, 1, Len(stdout))
        /\ DOMAIN files = written
        /\ \A k \in written : 1..k \subseteq written
        /\ written # {} => DOMAIN local_paths = Labels(FILES)
        /\ DOMAIN local_paths # Labels(FILES) => pc \in {"download", "aborted"}
        /\ pc = "task5" => {1, 3} \subseteq written
        /\ 5 \in written => pc = "done"

\* a complete run
C10_Witness == pc = "done" /\ stdout = FullRun /\ DOMAIN files = 1..5

====
